---- MODULE Spec2Model ----
(***************************************************************************)
(* Model of ai/backend/gateway/manager.py: the manager status gate, the    *)
(* per-process status cache and its watch loop, the status update with     *)
(* optional force-kill, the announcement, the scheduler operations and the *)
(* bounded health-check fan-out.                                           *)
(***************************************************************************)
EXTENDS Integers, Sequences, FiniteSets, TLC

\* ---------------------------------------------------------------- bounds
\* number of status writes issued in one behaviour
MaxWrites == 2
\* number of sessions ever created in one behaviour
MaxSessions == 2
\* length of the args list of a scheduler operation
MaxArgs == 3
\* number of agents a health check can name
MaxAgents == 5
\* number of calls of the next resolver in one behaviour
MaxResolves == 3

\* ------------------------------------------------------------ data model
\* the manager processes, each with its own cache and watch task
Procs == {"p1", "p2"}

\* marker for an empty memo / an absent value
NoValue == "NoValue"

\* the members of the ManagerStatus enum used here
ManagerStatus == {"RUNNING", "FROZEN", "TERMINATED"}

READ_ALLOWED == {"RUNNING", "FROZEN"}
ALL_ALLOWED == {"RUNNING"}

\* raw JSON values of the force_kill key of a status update body
ForceKillInputs == {"true", "false", "absent"}

VARIABLES
    storeStatus,    \* the authoritative status value in the key-value store
    cache,          \* cache[p]: the memo of get_manager_status in process p
    watchQ,         \* watchQ[p]: watch events sent to p and not yet received
    wpc,            \* wpc[p]: position of detect_status_update in process p
    wval,           \* wval[p]: the value the watch loop's refetch has read
    gpc,            \* gpc[p]: position of the gated request of process p
    gallowed,       \* gallowed[p]: allowed_status of the gate in use
    gval,           \* gval[p]: the value the gated request's fetch has read
    gstatus,        \* gstatus[p]: what get_manager_status returned to the gate
    goutcome,       \* goutcome[p]: "handler" or the exception the gate raised
    upc,            \* position of the update_manager_status call
    ustatus,        \* its status parameter
    uforce,         \* its raw force_kill parameter
    uoutcome,       \* its result
    sessions,       \* the active sessions
    nextSid,        \* number of sessions created so far
    toKill,         \* sessions kill_all_sessions still has to destroy
    activeAtCall,   \* the sessions that were active when the update was called
    nWrites,        \* number of status writes done
    handled         \* handled[p]: number of put events p's watch loop finished

VARIABLES
    annStore,       \* the value stored under manager/announcement, or NoValue
    apc,            \* position of the update_announcement call
    aenabled,       \* its enabled parameter
    amessage,       \* its message parameter
    aoutcome,       \* its result
    annBefore,      \* the stored announcement when the call was made
    getpc,          \* position of the get_announcement call
    getret          \* the answer get_announcement returned

VARIABLES
    rows,           \* ids of the rows of the agents table
    schedulable,    \* schedulable[a]: the committed flag of agent row a
    txn,            \* the flags as written inside the open transaction
    inTxn,          \* whether perform_scheduler_ops holds an open transaction
    spc,            \* position of the perform_scheduler_ops call
    sop,            \* its op parameter
    sargs,          \* its args parameter, once validated
    sargsValid,     \* whether args passed the t.List(t.String) check
    soutcome,       \* its result
    rowcount,       \* result.rowcount of the UPDATE
    nEvents,        \* number of do_schedule events produced so far
    eventsBefore,   \* nEvents when the call was made
    schedBefore     \* the committed flags when the call was made

VARIABLES
    hpc,            \* position of the health_check call
    hreq,           \* the agent_ids parameter as given
    hall,           \* the with_all_agents parameter
    hids,           \* params['agent_ids'] as the fan-out uses it
    hno_alive,      \* whether the ALIVE query of this call found no agent
    houtcome,       \* the result of the call: "200" or the exception
    hmanagers,      \* whether the answer has the managers entry
    hagentsPresent, \* whether the answer has an agents field
    hagents,        \* the agents field
    herror,         \* the exception that ended the gather, if any
    job,            \* job[i]: state of the probe job of hids[i]
    touched,        \* what the call has accessed: db, store, watcher, probe
    schedOpen,      \* whether the aiojobs scheduler is open
    sessOpen        \* whether the aiohttp ClientSession is open

VARIABLES
    qpc,            \* position of the middleware's resolve call
    qop,            \* info.operation.operation
    qstatus,        \* info.context['manager_status']
    qargs,          \* the root, info and args resolve was called with
    qpassed,        \* the root, info and args the next resolver was called with
    qnext,          \* what the next resolver returned
    qret,           \* what resolve returned, or the exception it raised
    qcalls,         \* number of calls of the next resolver so far
    qcallsBefore    \* qcalls when resolve was called

VARIABLES
    subOpen,        \* subOpen[p]: whether p's watch subscription is open
    wcancel,        \* wcancel[p]: cancel() was called on p's watch task
    wresult,        \* wresult[p]: how p's watch task ended: "None" or the exception
    wcause,         \* wcause[p]: what ended p's watch task
    shpc            \* shpc[p]: position of shutdown in process p

gateVars == <<gpc, gallowed, gval, gstatus, goutcome>>
watchVars == <<wpc, wval, handled>>
updVars == <<upc, ustatus, uforce, uoutcome, toKill, activeAtCall>>
sessVars == <<sessions, nextSid>>
statusVars == <<storeStatus, cache, watchQ, nWrites, gateVars, watchVars,
                updVars, sessVars>>
annVars == <<annStore, apc, aenabled, amessage, aoutcome, annBefore, getpc,
             getret>>

schedVars == <<rows, schedulable, txn, inTxn, spc, sop, sargs, sargsValid,
               soutcome, rowcount, nEvents, eventsBefore, schedBefore>>

VARIABLES
    nowatcher       \* the jobs whose get_watcher_info found nothing

healthVars == <<hpc, hreq, hall, hids, hno_alive, houtcome, hmanagers,
                hagentsPresent, hagents, herror, job, touched, schedOpen,
                sessOpen, nowatcher>>

lifeVars == <<subOpen, wcancel, wresult, wcause, shpc>>

gqlVars == <<qpc, qop, qstatus, qargs, qpassed, qnext, qret, qcalls,
             qcallsBefore>>

vars == <<statusVars, lifeVars, annVars, schedVars, healthVars, gqlVars>>

\* frames: the state each group of handlers leaves alone
Others == <<annVars, schedVars, healthVars, gqlVars>>
NotStatus == <<lifeVars, Others>>
NotAnn == <<statusVars, lifeVars, schedVars, healthVars, gqlVars>>
NotSched == <<statusVars, lifeVars, annVars, healthVars, gqlVars>>
NotHealth == <<statusVars, lifeVars, annVars, schedVars, gqlVars>>
NotGql == <<statusVars, lifeVars, annVars, schedVars, healthVars>>
NotProbe == <<nowatcher, NotHealth>>

\* ------------------------------------------------------------ StatusGate
\* A mutation of the gate: FROZEN is rejected before the membership test.
StatusGateFrozenFirst(status, allowed_status) ==
    IF status = "FROZEN" THEN "ServerFrozen"
    ELSE IF status \notin allowed_status THEN "ServiceUnavailable"
    ELSE "handler"

\* server_status_required.wrapped after the status read: the exception raised,
\* or "handler" when the wrapped handler is awaited.
StatusGate(status, allowed_status) ==
    IF status \notin allowed_status
    THEN IF status = "FROZEN" THEN "ServerFrozen" ELSE "ServiceUnavailable"
    ELSE "handler"

\* wrapped(): get_manager_status() is called; on a memo hit it returns at
\* once and the gate decides, on a miss the call suspends on the store read.
GateCall(p, A) ==
    /\ gpc[p] \in {"idle", "done"}
    /\ gallowed' = [gallowed EXCEPT ![p] = A]
    /\ gval' = [gval EXCEPT ![p] = NoValue]
    /\ IF cache[p] # NoValue
       THEN /\ gpc' = [gpc EXCEPT ![p] = "done"]
            /\ gstatus' = [gstatus EXCEPT ![p] = cache[p]]
            /\ goutcome' = [goutcome EXCEPT ![p] = StatusGate(cache[p], A)]
       ELSE /\ gpc' = [gpc EXCEPT ![p] = "fetch"]
            /\ gstatus' = [gstatus EXCEPT ![p] = NoValue]
            /\ goutcome' = [goutcome EXCEPT ![p] = NoValue]
    /\ UNCHANGED <<storeStatus, cache, watchQ, wpc, wval, upc, ustatus, uforce,
                   uoutcome, sessions, nextSid, toKill, activeAtCall, nWrites,
                   handled,
                   NotStatus>>

\* the store serves the read of the gated request's get_manager_status
GateStoreRead(p) ==
    /\ gpc[p] = "fetch"
    /\ gval' = [gval EXCEPT ![p] = storeStatus]
    /\ gpc' = [gpc EXCEPT ![p] = "fetched"]
    /\ UNCHANGED <<storeStatus, cache, watchQ, wpc, wval, gallowed, gstatus,
                   goutcome, upc, ustatus, uforce, uoutcome, sessions, nextSid,
                   toKill, activeAtCall, nWrites, handled,
                   NotStatus>>

\* the read returns: the memo is filled with the value read, the gate decides
GateReturn(p) ==
    /\ gpc[p] = "fetched"
    /\ cache' = [cache EXCEPT ![p] = gval[p]]
    /\ gstatus' = [gstatus EXCEPT ![p] = gval[p]]
    /\ goutcome' = [goutcome EXCEPT ![p] = StatusGate(gval[p], gallowed[p])]
    /\ gpc' = [gpc EXCEPT ![p] = "done"]
    /\ UNCHANGED <<storeStatus, watchQ, wpc, wval, gallowed, gval, upc, ustatus,
                   uforce, uoutcome, sessions, nextSid, toKill, activeAtCall,
                   nWrites, handled,
                   NotStatus>>

\* -------------------------------------------------------- StatusWatchLoop
\* detect_status_update receives a put event: cache_clear(), then the
\* refetch get_manager_status() misses and suspends on the store read.
WatchPut(p) ==
    /\ wpc[p] = "wait"
    /\ ~wcancel[p]
    /\ watchQ[p] # <<>>
    /\ Head(watchQ[p]) = "put"
    /\ watchQ' = [watchQ EXCEPT ![p] = Tail(watchQ[p])]
    /\ cache' = [cache EXCEPT ![p] = NoValue]
    /\ wpc' = [wpc EXCEPT ![p] = "fetch"]
    /\ UNCHANGED <<storeStatus, wval, gpc, gallowed, gval, gstatus, goutcome,
                   upc, ustatus, uforce, uoutcome, sessions, nextSid, toKill,
                   activeAtCall, nWrites, handled,
                   NotStatus>>

\* the store serves the read of the watch loop's refetch
WatchStoreRead(p) ==
    /\ wpc[p] = "fetch"
    /\ wval' = [wval EXCEPT ![p] = storeStatus]
    /\ wpc' = [wpc EXCEPT ![p] = "fetched"]
    /\ UNCHANGED <<storeStatus, cache, watchQ, gpc, gallowed, gval, gstatus,
                   goutcome, upc, ustatus, uforce, uoutcome, sessions, nextSid,
                   toKill, activeAtCall, nWrites, handled,
                   NotStatus>>

\* the refetch returns: the memo is filled and the loop waits for the next event
WatchReturn(p) ==
    /\ wpc[p] = "fetched"
    /\ ~wcancel[p]
    /\ cache' = [cache EXCEPT ![p] = wval[p]]
    /\ wval' = [wval EXCEPT ![p] = NoValue]
    /\ wpc' = [wpc EXCEPT ![p] = "wait"]
    /\ handled' = [handled EXCEPT ![p] = handled[p] + 1]
    /\ UNCHANGED <<storeStatus, watchQ, gpc, gallowed, gval, gstatus, goutcome,
                   upc, ustatus, uforce, uoutcome, sessions, nextSid, toKill,
                   activeAtCall, nWrites,
                   NotStatus>>

\* ------------------------------------------------- update_manager_status
\* truthiness of the raw JSON value tested by `if force_kill:`
Truthy(fk) == fk = "true"

\* A mutation of the update: the kill step is skipped.
UpdateCallNoKill(status, fk) ==
    /\ upc \in {"idle", "done"}
    /\ nWrites < MaxWrites
    /\ ustatus' = status
    /\ uforce' = fk
    /\ activeAtCall' = sessions
    /\ toKill' = {}
    /\ IF fk = "absent"
       THEN upc' = "done" /\ uoutcome' = "KeyError"
       ELSE upc' = "write" /\ uoutcome' = NoValue
    /\ UNCHANGED <<storeStatus, cache, watchQ, wpc, wval, gpc, gallowed, gval,
                   gstatus, goutcome, sessions, nextSid, nWrites, handled,
                   NotStatus>>

\* update_manager_status up to the first call it awaits: the body is read
\* again, params['force_kill'] raises KeyError when the key is absent.
UpdateCall(status, fk) ==
    /\ upc \in {"idle", "done"}
    /\ nWrites < MaxWrites
    /\ ustatus' = status
    /\ uforce' = fk
    /\ activeAtCall' = sessions
    /\ toKill' = {}
    /\ IF fk = "absent"
       THEN upc' = "done" /\ uoutcome' = "KeyError"
       ELSE /\ upc' = IF Truthy(fk) THEN "kill" ELSE "write"
            /\ uoutcome' = NoValue
    /\ UNCHANGED <<storeStatus, cache, watchQ, wpc, wval, gpc, gallowed, gval,
                   gstatus, goutcome, sessions, nextSid, nWrites, handled,
                   NotStatus>>

\* kill_all_sessions starts: it lists the sessions active now
KillStart ==
    /\ upc = "kill"
    /\ toKill' = sessions
    /\ upc' = "killing"
    /\ UNCHANGED <<storeStatus, cache, watchQ, wpc, wval, gpc, gallowed, gval,
                   gstatus, goutcome, ustatus, uforce, uoutcome, sessions,
                   nextSid, activeAtCall, nWrites, handled,
                   NotStatus>>

\* kill_all_sessions destroys one listed session
KillOne(s) ==
    /\ upc = "killing"
    /\ s \in toKill
    /\ toKill' = toKill \ {s}
    /\ sessions' = sessions \ {s}
    /\ UNCHANGED <<storeStatus, cache, watchQ, wpc, wval, gpc, gallowed, gval,
                   gstatus, goutcome, upc, ustatus, uforce, uoutcome, nextSid,
                   activeAtCall, nWrites, handled,
                   NotStatus>>

\* kill_all_sessions returns once every listed session is destroyed
KillReturn ==
    /\ upc = "killing"
    /\ toKill = {}
    /\ upc' = "write"
    /\ UNCHANGED <<storeStatus, cache, watchQ, wpc, wval, gpc, gallowed, gval,
                   gstatus, goutcome, ustatus, uforce, uoutcome, sessions,
                   nextSid, toKill, activeAtCall, nWrites, handled,
                   NotStatus>>

\* A mutation of the handler: the status is written although the kill failed.
KillFailStillWrites ==
    /\ upc \in {"kill", "killing"}
    /\ storeStatus' = ustatus
    /\ watchQ' = [p \in Procs |->
                      IF subOpen[p] THEN Append(watchQ[p], "put") ELSE watchQ[p]]
    /\ nWrites' = nWrites + 1
    /\ toKill' = {}
    /\ upc' = "done"
    /\ uoutcome' = "KillFailed"
    /\ UNCHANGED <<cache, wpc, wval, gpc, gallowed, gval, gstatus, goutcome,
                   ustatus, uforce, sessions, nextSid, activeAtCall, handled,
                   NotStatus>>

\* kill_all_sessions raises, before or after it has destroyed some sessions:
\* the exception leaves the handler from the await of the kill, the write
\* after it is not reached
KillFail ==
    /\ upc \in {"kill", "killing"}
    /\ toKill' = {}
    /\ upc' = "done"
    /\ uoutcome' = "KillFailed"
    /\ UNCHANGED <<storeStatus, cache, watchQ, wpc, wval, gpc, gallowed, gval,
                   gstatus, goutcome, ustatus, uforce, sessions, nextSid,
                   activeAtCall, nWrites, handled,
                   NotStatus>>

\* config_server.update_manager_status: the value is put into the store, the
\* store sends a put event to every watcher; the handler answers 204.
UpdateWrite ==
    /\ upc = "write"
    /\ storeStatus' = ustatus
    /\ watchQ' = [p \in Procs |->
                      IF subOpen[p] THEN Append(watchQ[p], "put") ELSE watchQ[p]]
    /\ nWrites' = nWrites + 1
    /\ upc' = "done"
    /\ uoutcome' = "204"
    /\ UNCHANGED <<cache, wpc, wval, gpc, gallowed, gval, gstatus, goutcome,
                   ustatus, uforce, sessions, nextSid, toKill, activeAtCall,
                   handled,
                   NotStatus>>

\* a session is started by some other request
CreateSession ==
    /\ nextSid < MaxSessions
    /\ nextSid' = nextSid + 1
    /\ sessions' = sessions \cup {nextSid + 1}
    /\ UNCHANGED <<storeStatus, cache, watchQ, wpc, wval, gpc, gallowed, gval,
                   gstatus, goutcome, upc, ustatus, uforce, uoutcome, toKill,
                   activeAtCall, nWrites, handled,
                   NotStatus>>

\* ------------------------------------------ watch task: init and shutdown
\* the status variables the life cycle of the watch task leaves alone
NotLife == <<storeStatus, gateVars, updVars, sessVars, nWrites, handled, Others>>

\* the task created by init runs for the first time: it subscribes and
\* waits for the first event
WatchStart(p) ==
    /\ wpc[p] = "new"
    /\ ~wcancel[p]
    /\ subOpen' = [subOpen EXCEPT ![p] = TRUE]
    /\ wpc' = [wpc EXCEPT ![p] = "wait"]
    /\ UNCHANGED <<cache, watchQ, wval, wcancel, wresult, wcause, shpc, NotLife>>

\* the change stream ends on its own: `async for` is left, aclosing closes
\* the stream and detect_status_update returns
WatchStreamEnd(p) ==
    /\ wpc[p] = "wait"
    /\ ~wcancel[p]
    /\ subOpen' = [subOpen EXCEPT ![p] = FALSE]
    /\ watchQ' = [watchQ EXCEPT ![p] = <<>>]
    /\ wpc' = [wpc EXCEPT ![p] = "done"]
    /\ wresult' = [wresult EXCEPT ![p] = "None"]
    /\ wcause' = [wcause EXCEPT ![p] = "end"]
    /\ UNCHANGED <<cache, wval, wcancel, shpc, NotLife>>

\* the change stream fails: the exception is none that is caught and ends
\* the task
WatchStreamError(p) ==
    /\ wpc[p] = "wait"
    /\ ~wcancel[p]
    /\ subOpen' = [subOpen EXCEPT ![p] = FALSE]
    /\ watchQ' = [watchQ EXCEPT ![p] = <<>>]
    /\ wpc' = [wpc EXCEPT ![p] = "done"]
    /\ wresult' = [wresult EXCEPT ![p] = "StreamError"]
    /\ wcause' = [wcause EXCEPT ![p] = "error"]
    /\ UNCHANGED <<cache, wval, wcancel, shpc, NotLife>>

\* shutdown: cancel() on the watch task, then the task is awaited
ShutdownCancel(p) ==
    /\ shpc[p] = "idle"
    /\ wcancel' = [wcancel EXCEPT ![p] = (wpc[p] # "done")]
    /\ shpc' = [shpc EXCEPT ![p] = "awaiting"]
    /\ UNCHANGED <<cache, watchQ, wpc, wval, subOpen, wresult, wcause, NotLife>>

\* the cancelled task is resumed with CancelledError. A task that never ran
\* ends cancelled. Otherwise the error is raised where the task is suspended
\* (waiting for an event, or in the refetch), aclosing closes the stream, the
\* error is caught and detect_status_update returns.
WatchCancelled(p) ==
    /\ wcancel[p]
    /\ wpc[p] # "done"
    /\ wcancel' = [wcancel EXCEPT ![p] = FALSE]
    /\ wpc' = [wpc EXCEPT ![p] = "done"]
    /\ wval' = [wval EXCEPT ![p] = NoValue]
    /\ watchQ' = [watchQ EXCEPT ![p] = <<>>]
    /\ subOpen' = [subOpen EXCEPT ![p] = FALSE]
    /\ wresult' = [wresult EXCEPT ![p] =
                      IF wpc[p] = "new" THEN "CancelledError" ELSE "None"]
    /\ wcause' = [wcause EXCEPT ![p] =
                     CASE wpc[p] = "new" -> "cancel@new"
                       [] wpc[p] = "wait" -> "cancel@wait"
                       [] OTHER -> "cancel@refetch"]
    /\ UNCHANGED <<cache, shpc, NotLife>>

\* A mutation of shutdown: the task is not awaited.
ShutdownReturnDetached(p) ==
    /\ shpc[p] = "awaiting"
    /\ shpc' = [shpc EXCEPT ![p] =
                   IF wresult[p] \in {"None", NoValue} THEN "returned" ELSE "raised"]
    /\ UNCHANGED <<cache, watchQ, wpc, wval, subOpen, wcancel, wresult, wcause,
                   NotLife>>

\* `await app['status_watch_task']` ends once the task has ended: it returns,
\* or raises the exception the task ended with
ShutdownReturn(p) ==
    /\ shpc[p] = "awaiting"
    /\ wpc[p] = "done"
    /\ shpc' = [shpc EXCEPT ![p] =
                   IF wresult[p] = "None" THEN "returned" ELSE "raised"]
    /\ UNCHANGED <<cache, watchQ, wpc, wval, subOpen, wcancel, wresult, wcause,
                   NotLife>>

\* ---------------------------------------------------------- announcement
\* the message values of an update_announcement body; NoValue is a null or
\* missing message
Messages == {"", "m1", "m2"}

\* Python truthiness of the message parameter
MessageGiven(message) == message # NoValue /\ message # ""

\* A mutation of update_announcement: the empty-message test is dropped.
AnnUpdateCallUnchecked(enabled, message) ==
    /\ apc \in {"idle", "done"}
    /\ aenabled' = enabled
    /\ amessage' = message
    /\ annBefore' = annStore
    /\ apc' = "store"
    /\ aoutcome' = NoValue
    /\ UNCHANGED <<annStore, getpc, getret, NotAnn>>

\* update_announcement up to the store operation it awaits
AnnUpdateCall(enabled, message) ==
    /\ apc \in {"idle", "done"}
    /\ aenabled' = enabled
    /\ amessage' = message
    /\ annBefore' = annStore
    /\ IF enabled /\ ~MessageGiven(message)
       THEN apc' = "done" /\ aoutcome' = "InvalidAPIParameters"
       ELSE apc' = "store" /\ aoutcome' = NoValue
    /\ UNCHANGED <<annStore, getpc, getret, NotAnn>>

\* A mutation of update_announcement: a disabling update that carries a
\* message stores the message.
AnnStoreOpKeepsMessage ==
    /\ apc = "store"
    /\ annStore' = IF aenabled \/ MessageGiven(amessage) THEN amessage ELSE NoValue
    /\ apc' = "done"
    /\ aoutcome' = "204"
    /\ UNCHANGED <<aenabled, amessage, annBefore, getpc, getret, NotAnn>>

\* etcd.put / etcd.delete of manager/announcement is applied; 204 is returned
AnnStoreOp ==
    /\ apc = "store"
    /\ annStore' = IF aenabled THEN amessage ELSE NoValue
    /\ apc' = "done"
    /\ aoutcome' = "204"
    /\ UNCHANGED <<aenabled, amessage, annBefore, getpc, getret, NotAnn>>

\* get_announcement is called and awaits the store read
AnnGetCall ==
    /\ getpc \in {"idle", "done"}
    /\ getpc' = "read"
    /\ getret' = NoValue
    /\ UNCHANGED <<annStore, apc, aenabled, amessage, aoutcome, annBefore,
                   NotAnn>>

\* the read returns and get_announcement builds its answer
AnnGetReturn ==
    /\ getpc = "read"
    /\ getret' = IF annStore = NoValue
                 THEN [enabled |-> FALSE, message |-> ""]
                 ELSE [enabled |-> TRUE, message |-> annStore]
    /\ getpc' = "done"
    /\ UNCHANGED <<annStore, apc, aenabled, amessage, aoutcome, annBefore,
                   NotAnn>>

\* ------------------------------------------------- perform_scheduler_ops
AgentNames == {"a1", "a2", "a3"}

SchedulerOps == {"include-agents", "exclude-agents"}

\* the lists of at most n elements of S
ListsUpTo(S, n) == UNION {[1..k -> S] : k \in 0..n}

\* the elements of a list
Elems(l) == {l[i] : i \in DOMAIN l}

\* perform_scheduler_ops up to the UPDATE it awaits: args is validated, a
\* connection is acquired and a transaction begun.
SchedCall(op, args, valid) ==
    /\ spc \in {"idle", "done"}
    /\ sop' = op
    /\ sargs' = args
    /\ sargsValid' = valid
    /\ eventsBefore' = nEvents
    /\ schedBefore' = schedulable
    /\ rowcount' = 0
    /\ IF ~valid
       THEN /\ spc' = "done"
            /\ soutcome' = "InvalidAPIParameters"
            /\ UNCHANGED <<txn, inTxn>>
       ELSE /\ spc' = "execute"
            /\ soutcome' = NoValue
            /\ txn' = schedulable
            /\ inTxn' = TRUE
    /\ UNCHANGED <<rows, schedulable, nEvents, NotSched>>

\* the UPDATE runs inside the transaction; rowcount is the number of rows
\* whose id is in args; rowcount < len(args) raises InstanceNotFound inside
\* the transaction block
SchedExecute ==
    /\ spc = "execute"
    /\ LET schedulable_ == (sop = "include-agents")
           hit == rows \cap Elems(sargs)
       IN  /\ txn' = [a \in rows |-> IF a \in hit THEN schedulable_ ELSE txn[a]]
           /\ rowcount' = Cardinality(hit)
           /\ spc' = IF Cardinality(hit) < Len(sargs) THEN "raise" ELSE "commit"
    /\ UNCHANGED <<rows, schedulable, inTxn, sop, sargs, sargsValid, soutcome,
                   nEvents, eventsBefore, schedBefore, NotSched>>

\* A mutation of the error path: the transaction is committed before the
\* error is reported.
SchedRaiseCommitted ==
    /\ spc = "raise"
    /\ schedulable' = txn
    /\ inTxn' = FALSE
    /\ spc' = "done"
    /\ soutcome' = "InstanceNotFound"
    /\ UNCHANGED <<rows, txn, sop, sargs, sargsValid, rowcount, nEvents,
                   eventsBefore, schedBefore, NotSched>>

\* InstanceNotFound leaves the `async with conn.begin()` block: the
\* transaction is rolled back and the error is the result of the call
SchedRaise ==
    /\ spc = "raise"
    /\ txn' = schedulable
    /\ inTxn' = FALSE
    /\ spc' = "done"
    /\ soutcome' = "InstanceNotFound"
    /\ UNCHANGED <<rows, schedulable, sop, sargs, sargsValid, rowcount, nEvents,
                   eventsBefore, schedBefore, NotSched>>

\* A mutation of the commit: the trigger is produced for either operation.
SchedCommitAlwaysTrigger ==
    /\ spc = "commit"
    /\ schedulable' = txn
    /\ inTxn' = FALSE
    /\ spc' = "produce"
    /\ UNCHANGED <<rows, txn, sop, sargs, sargsValid, rowcount, nEvents,
                   eventsBefore, schedBefore, soutcome, NotSched>>

\* the transaction block is left normally: commit; an exclude is answered
\* 204, an include goes on to produce the event
SchedCommit ==
    /\ spc = "commit"
    /\ schedulable' = txn
    /\ inTxn' = FALSE
    /\ IF sop = "include-agents"
       THEN spc' = "produce" /\ UNCHANGED soutcome
       ELSE spc' = "done" /\ soutcome' = "204"
    /\ UNCHANGED <<rows, txn, sop, sargs, sargsValid, rowcount, nEvents,
                   eventsBefore, schedBefore, NotSched>>

\* produce_event('do_schedule'), then 204
SchedProduce ==
    /\ spc = "produce"
    /\ nEvents' = nEvents + 1
    /\ spc' = "done"
    /\ soutcome' = "204"
    /\ UNCHANGED <<rows, schedulable, txn, inTxn, sop, sargs, sargsValid,
                   rowcount, eventsBefore, schedBefore, NotSched>>

\* ---------------------------------------------------------- health_check
\* agent ids are 1..MaxAgents; Null is a null element of agent_ids
Null == 0

\* limit of the aiojobs scheduler
Limit == 4

\* the ids 1..n in order
FirstIds(n) == [i \in 1..n |-> i]

\* the agent_ids lists tried: the first n ids, and lists with a null element
IdLists == {FirstIds(n) : n \in 0..MaxAgents} \cup {<<Null>>, <<1, Null>>}

\* a job holding one of the scheduler's slots
Active(j, i) == j[i] \in {"lookup", "probe"}

ActiveCount(j) == Cardinality({i \in DOMAIN j : Active(j, i)})

\* a job that has ended by returning a value
Returned(j, i) == j[i] \in {"empty", "payload"}

\* a job that has ended by raising
Raised(j, i) == j[i] \in {"TimeoutError", "ClientConnectorError"}

\* what job.wait() returns for a job that returned: none_result, or the body
\* the watcher of that agent answered
JobResult(i) == <<job[i], hids[i]>>

\* A mutation of the scheduler: every spawned job is started at once.
StartJobsUnlimited(n) == [i \in 1..n |-> "lookup"]

\* scheduler.spawn for each id in order: a job is started while fewer than
\* Limit are active, the others are queued
StartJobs(n) == [i \in 1..n |-> IF i <= Limit THEN "lookup" ELSE "pending"]

\* the scheduler's done callback: a free slot goes to the oldest queued job
Promote(j) ==
    LET queued == {i \in DOMAIN j : j[i] = "pending"}
    IN  IF queued # {} /\ ActiveCount(j) < Limit
        THEN LET k == CHOOSE i \in queued : \A q \in queued : i <= q
             IN  [j EXCEPT ![k] = "lookup"]
        ELSE j

\* health_check up to its first await: the log line joins the ids, which
\* raises TypeError on a null id; both parameters given is rejected
HealthCall(ids, all) ==
    /\ hpc \in {"idle", "done"}
    /\ hreq' = ids
    /\ hall' = all
    /\ hids' = ids
    /\ hno_alive' = FALSE
    /\ hmanagers' = FALSE
    /\ hagentsPresent' = FALSE
    /\ hagents' = <<>>
    /\ herror' = NoValue
    /\ job' = <<>>
    /\ touched' = {}
    /\ IF \E i \in DOMAIN ids : ids[i] = Null
       THEN hpc' = "done" /\ houtcome' = "TypeError"
       ELSE IF all /\ ids # <<>>
       THEN hpc' = "done" /\ houtcome' = "InvalidAPIParameters"
       ELSE /\ hpc' = IF all THEN "query" ELSE "managers"
            /\ houtcome' = NoValue
    /\ nowatcher' = {}
    /\ UNCHANGED <<schedOpen, sessOpen, NotHealth>>

\* with_all_agents: the ids of the n agents that are ALIVE now are selected
HealthQueryAlive(n) ==
    /\ hpc = "query"
    /\ hids' = FirstIds(n)
    /\ hno_alive' = (n = 0)
    /\ touched' = touched \cup {"db"}
    /\ hpc' = "managers"
    /\ UNCHANGED <<hreq, hall, houtcome, hmanagers, hagentsPresent, hagents,
                   herror, job, schedOpen, sessOpen, NotProbe>>

\* A mutation of the early return: the empty fan-out is run and its empty
\* list is put into the answer.
HealthManagerInfoNoEarlyReturn ==
    /\ hpc = "managers"
    /\ touched' = touched \cup {"store"}
    /\ hmanagers' = TRUE
    /\ IF hids = <<>>
       THEN hpc' = "done" /\ houtcome' = "200" /\ hagentsPresent' = TRUE
       ELSE hpc' = "spawn" /\ UNCHANGED <<houtcome, hagentsPresent>>
    /\ UNCHANGED <<hreq, hall, hids, hno_alive, hagents, herror, job,
                   schedOpen, sessOpen, NotProbe>>

\* the managers entry is built from get_manager_nodes_info and
\* host_health_check; without agent ids it is the whole answer
HealthManagerInfo ==
    /\ hpc = "managers"
    /\ touched' = touched \cup {"store"}
    /\ hmanagers' = TRUE
    /\ IF hids = <<>>
       THEN hpc' = "done" /\ houtcome' = "200"
       ELSE hpc' = "spawn" /\ UNCHANGED houtcome
    /\ UNCHANGED <<hreq, hall, hids, hno_alive, hagentsPresent, hagents,
                   herror, job, schedOpen, sessOpen, NotProbe>>

\* the ClientSession and the scheduler are created and one job per id is
\* spawned; health_check then waits for the jobs
HealthSpawn ==
    /\ hpc = "spawn"
    /\ sessOpen' = TRUE
    /\ schedOpen' = TRUE
    /\ job' = StartJobs(Len(hids))
    /\ hpc' = "wait"
    /\ UNCHANGED <<hreq, hall, hids, hno_alive, houtcome, hmanagers,
                   hagentsPresent, hagents, herror, touched, NotProbe>>

\* A mutation of the lookup: the watcher is asked although none is known.
JobLookupNoneProbes(i) ==
    /\ schedOpen
    /\ job[i] = "lookup"
    /\ job' = [job EXCEPT ![i] = "probe"]
    /\ touched' = touched \cup {"watcher", "probe"}
    /\ nowatcher' = nowatcher \cup {i}
    /\ UNCHANGED <<hpc, hreq, hall, hids, hno_alive, houtcome, hmanagers,
                   hagentsPresent, hagents, herror, schedOpen, sessOpen,
                   NotHealth>>

\* _agent_health_check: get_watcher_info found nothing, none_result
JobLookupNone(i) ==
    /\ schedOpen
    /\ job[i] = "lookup"
    /\ job' = Promote([job EXCEPT ![i] = "empty"])
    /\ touched' = touched \cup {"watcher"}
    /\ nowatcher' = nowatcher \cup {i}
    /\ UNCHANGED <<hpc, hreq, hall, hids, hno_alive, houtcome, hmanagers,
                   hagentsPresent, hagents, herror, schedOpen, sessOpen,
                   NotHealth>>

\* _agent_health_check: the watcher is known, sess.get is issued
JobLookupFound(i) ==
    /\ schedOpen
    /\ job[i] = "lookup"
    /\ job' = [job EXCEPT ![i] = "probe"]
    /\ touched' = touched \cup {"watcher", "probe"}
    /\ UNCHANGED nowatcher
    /\ UNCHANGED <<hpc, hreq, hall, hids, hno_alive, houtcome, hmanagers,
                   hagentsPresent, hagents, herror, schedOpen, sessOpen,
                   NotHealth>>

\* _agent_health_check: the probe ends; status 200 returns the body, another
\* status none_result; a timeout of _timeout(10.0) or a failed connection
\* raises out of the job
JobProbeEnd(i, how) ==
    /\ schedOpen
    /\ job[i] = "probe"
    /\ job' = Promote([job EXCEPT ![i] = how])
    /\ UNCHANGED <<hpc, hreq, hall, hids, hno_alive, houtcome, hmanagers,
                   hagentsPresent, hagents, herror, touched, schedOpen,
                   sessOpen, NotProbe>>

\* gather(job.wait()...) returns once every job has returned
HealthGatherReturn ==
    /\ hpc = "wait"
    /\ \A i \in DOMAIN job : Returned(job, i)
    /\ hagents' = [i \in DOMAIN job |-> JobResult(i)]
    /\ hpc' = "close"
    /\ UNCHANGED <<hreq, hall, hids, hno_alive, houtcome, hmanagers,
                   hagentsPresent, herror, job, touched, schedOpen, sessOpen,
                   NotProbe>>

\* gather(job.wait()...) raises the exception of a job that raised
HealthGatherRaise(i) ==
    /\ hpc = "wait"
    /\ Raised(job, i)
    /\ herror' = job[i]
    /\ hpc' = "close"
    /\ UNCHANGED <<hreq, hall, hids, hno_alive, houtcome, hmanagers,
                   hagentsPresent, hagents, job, touched, schedOpen, sessOpen,
                   NotProbe>>

\* the call is cancelled while it waits for the jobs: CancelledError is
\* raised at the gather; job.wait() shields the jobs, which run on until the
\* scheduler is closed
HealthCancel ==
    /\ hpc = "wait"
    /\ herror' = "CancelledError"
    /\ hpc' = "close"
    /\ UNCHANGED <<hreq, hall, hids, hno_alive, houtcome, hmanagers,
                   hagentsPresent, hagents, job, touched, schedOpen, sessOpen,
                   NotProbe>>

\* A mutation of the fan-out: the scheduler is closed after the gather
\* instead of in a finally, so an exception skips it.
HealthCloseNoFinally ==
    /\ hpc = "close"
    /\ IF herror = NoValue
       THEN /\ job' = [i \in DOMAIN job |->
                         IF Returned(job, i) \/ Raised(job, i) THEN job[i]
                         ELSE "cancelled"]
            /\ schedOpen' = FALSE
       ELSE UNCHANGED <<job, schedOpen>>
    /\ hpc' = "exit"
    /\ UNCHANGED <<hreq, hall, hids, hno_alive, houtcome, hmanagers,
                   hagentsPresent, hagents, herror, touched, sessOpen,
                   NotProbe>>

\* finally: scheduler.close() cancels the jobs that have not ended
HealthClose ==
    /\ hpc = "close"
    /\ job' = [i \in DOMAIN job |->
                  IF Returned(job, i) \/ Raised(job, i) THEN job[i]
                  ELSE "cancelled"]
    /\ schedOpen' = FALSE
    /\ hpc' = "exit"
    /\ UNCHANGED <<hreq, hall, hids, hno_alive, houtcome, hmanagers,
                   hagentsPresent, hagents, herror, touched, sessOpen,
                   NotProbe>>

\* the ClientSession block is left; the exception goes on to the caller, or
\* the agents field is filled and the answer returned
HealthExit ==
    /\ hpc = "exit"
    /\ sessOpen' = FALSE
    /\ hpc' = "done"
    /\ IF herror # NoValue
       THEN houtcome' = herror /\ UNCHANGED hagentsPresent
       ELSE houtcome' = "200" /\ hagentsPresent' = TRUE
    /\ UNCHANGED <<hreq, hall, hids, hno_alive, hmanagers, hagents, herror,
                   job, touched, schedOpen, NotProbe>>

\* ------------------------------- GQLMutationUnfrozenRequiredMiddleware
\* the operation types of a GraphQL document
GqlOperations == {"query", "mutation", "subscription"}

\* the values a next resolver returns
GqlResults == {"r1", "r2"}

\* the field arguments of a resolve call
GqlArgs == {"args1", "args2"}

\* whether resolve raises ServerFrozen instead of calling next
GqlRejects(operation, manager_status) ==
    operation = "mutation" /\ manager_status = "FROZEN"

\* A mutation of the middleware: FROZEN rejects every operation.
GqlResolveAnyFrozen(operation, manager_status, args) ==
    /\ qpc \in {"idle", "done"}
    /\ qop' = operation
    /\ qstatus' = manager_status
    /\ qargs' = args
    /\ qcallsBefore' = qcalls
    /\ qnext' = NoValue
    /\ IF manager_status = "FROZEN"
       THEN /\ qpc' = "done" /\ qret' = "ServerFrozen"
            /\ qpassed' = NoValue /\ UNCHANGED qcalls
       ELSE /\ qpc' = "next" /\ qret' = NoValue
            /\ qpassed' = args /\ qcalls' = qcalls + 1
    /\ UNCHANGED NotGql

\* resolve: ServerFrozen is raised, or the next resolver is called
GqlResolve(operation, manager_status, args) ==
    /\ qpc \in {"idle", "done"}
    /\ qop' = operation
    /\ qstatus' = manager_status
    /\ qargs' = args
    /\ qcallsBefore' = qcalls
    /\ qnext' = NoValue
    /\ IF GqlRejects(operation, manager_status)
       THEN /\ qpc' = "done" /\ qret' = "ServerFrozen"
            /\ qpassed' = NoValue /\ UNCHANGED qcalls
       ELSE /\ qpc' = "next" /\ qret' = NoValue
            /\ qpassed' = args /\ qcalls' = qcalls + 1
    /\ UNCHANGED NotGql

\* the next resolver returns and resolve returns its result
GqlNextReturn(r) ==
    /\ qpc = "next"
    /\ qnext' = r
    /\ qret' = r
    /\ qpc' = "done"
    /\ UNCHANGED <<qop, qstatus, qargs, qpassed, qcalls, qcallsBefore, NotGql>>

\* ------------------------------------------------------- initial states
InitStatus ==
    /\ cache = [p \in Procs |-> NoValue]
    /\ watchQ = [p \in Procs |-> <<>>]
    /\ wpc = [p \in Procs |-> "wait"]
    /\ wval = [p \in Procs |-> NoValue]
    /\ gpc = [p \in Procs |-> "idle"]
    /\ gallowed = [p \in Procs |-> {}]
    /\ gval = [p \in Procs |-> NoValue]
    /\ gstatus = [p \in Procs |-> NoValue]
    /\ goutcome = [p \in Procs |-> NoValue]
    /\ upc = "idle"
    /\ ustatus = NoValue
    /\ uforce = "absent"
    /\ uoutcome = NoValue
    /\ sessions = {}
    /\ nextSid = 0
    /\ toKill = {}
    /\ activeAtCall = {}
    /\ nWrites = 0
    /\ handled = [p \in Procs |-> 0]

\* the watch tasks: subscribed and waiting, or created and not yet run
InitLife(started) ==
    /\ subOpen = [p \in Procs |-> started]
    /\ wcancel = [p \in Procs |-> FALSE]
    /\ wresult = [p \in Procs |-> NoValue]
    /\ wcause = [p \in Procs |-> NoValue]
    /\ shpc = [p \in Procs |-> "idle"]

InitAnn ==
    /\ annStore = NoValue
    /\ apc = "idle"
    /\ aenabled = FALSE
    /\ amessage = NoValue
    /\ aoutcome = NoValue
    /\ annBefore = NoValue
    /\ getpc = "idle"
    /\ getret = NoValue

\* no scheduler operation in progress; the agents table has the given rows
InitSched(rs, flags) ==
    /\ rows = rs
    /\ schedulable = flags
    /\ txn = flags
    /\ inTxn = FALSE
    /\ spc = "idle"
    /\ sop = "include-agents"
    /\ sargs = <<>>
    /\ sargsValid = TRUE
    /\ soutcome = NoValue
    /\ rowcount = 0
    /\ nEvents = 0
    /\ eventsBefore = 0
    /\ schedBefore = flags

InitHealth ==
    /\ hpc = "idle"
    /\ hreq = <<>>
    /\ hall = FALSE
    /\ hids = <<>>
    /\ hno_alive = FALSE
    /\ houtcome = NoValue
    /\ hmanagers = FALSE
    /\ hagentsPresent = FALSE
    /\ hagents = <<>>
    /\ herror = NoValue
    /\ job = <<>>
    /\ touched = {}
    /\ schedOpen = FALSE
    /\ sessOpen = FALSE
    /\ nowatcher = {}

InitGql ==
    /\ qpc = "idle"
    /\ qop = "query"
    /\ qstatus = "RUNNING"
    /\ qargs = NoValue
    /\ qpassed = NoValue
    /\ qnext = NoValue
    /\ qret = NoValue
    /\ qcalls = 0
    /\ qcallsBefore = 0

\* the state after cluster bootstrap: the status is RUNNING, no agent has
\* registered
Init ==
    /\ storeStatus = "RUNNING"
    /\ InitStatus
    /\ InitLife(TRUE)
    /\ InitAnn
    /\ InitSched({}, <<>>)
    /\ InitHealth
    /\ InitGql

\* ---------------------------------------------- status cache and watch loop
\* Gated requests, the watch loops and status updates in two processes. No
\* session is started here, so kill_all_sessions has nothing to destroy.
Next ==
    \/ \E p \in Procs, A \in {READ_ALLOWED, ALL_ALLOWED} : GateCall(p, A)
    \/ \E p \in Procs : GateStoreRead(p)
    \/ \E p \in Procs : GateReturn(p)
    \/ \E p \in Procs : WatchPut(p)
    \/ \E p \in Procs : WatchStoreRead(p)
    \/ \E p \in Procs : WatchReturn(p)
    \/ \E s \in ManagerStatus, fk \in ForceKillInputs : UpdateCall(s, fk)
    \/ KillStart
    \/ KillReturn
    \/ UpdateWrite

Spec == Init /\ [][Next]_vars

\* --------------------------------------------- life cycle of the watch task
\* the state right after init(app): the watch tasks are created, none has run
InitWatch ==
    /\ storeStatus = "RUNNING"
    /\ cache = [p \in Procs |-> NoValue]
    /\ watchQ = [p \in Procs |-> <<>>]
    /\ wpc = [p \in Procs |-> "new"]
    /\ wval = [p \in Procs |-> NoValue]
    /\ gpc = [p \in Procs |-> "idle"]
    /\ gallowed = [p \in Procs |-> {}]
    /\ gval = [p \in Procs |-> NoValue]
    /\ gstatus = [p \in Procs |-> NoValue]
    /\ goutcome = [p \in Procs |-> NoValue]
    /\ upc = "idle"
    /\ ustatus = NoValue
    /\ uforce = "absent"
    /\ uoutcome = NoValue
    /\ sessions = {}
    /\ nextSid = 0
    /\ toKill = {}
    /\ activeAtCall = {}
    /\ nWrites = 0
    /\ handled = [p \in Procs |-> 0]
    /\ InitLife(FALSE)
    /\ InitAnn
    /\ InitSched({}, <<>>)
    /\ InitHealth
    /\ InitGql

\* The watch loops from init to shutdown while the status is updated. No
\* session is started here, so kill_all_sessions has nothing to destroy.
NextWatch ==
    \/ \E p \in Procs : WatchStart(p)
    \/ \E p \in Procs : WatchPut(p)
    \/ \E p \in Procs : WatchStoreRead(p)
    \/ \E p \in Procs : WatchReturn(p)
    \/ \E p \in Procs : WatchStreamEnd(p)
    \/ \E p \in Procs : WatchStreamError(p)
    \/ \E p \in Procs : ShutdownCancel(p)
    \/ \E p \in Procs : WatchCancelled(p)
    \/ \E p \in Procs : ShutdownReturn(p)
    \/ \E s \in ManagerStatus, fk \in ForceKillInputs : UpdateCall(s, fk)
    \/ KillStart
    \/ KillReturn
    \/ UpdateWrite

SpecWatch == InitWatch /\ [][NextWatch]_vars

\* ------------------------------------------------------------ gate alone
\* The gate under every allowed-status set, the store holding any status.
InitGate ==
    /\ storeStatus \in ManagerStatus
    /\ InitStatus
    /\ InitLife(TRUE)
    /\ InitAnn
    /\ InitSched({}, <<>>)
    /\ InitHealth
    /\ InitGql

NextGate ==
    \/ \E p \in Procs, A \in SUBSET ManagerStatus : GateCall(p, A)
    \/ \E p \in Procs : GateStoreRead(p)
    \/ \E p \in Procs : GateReturn(p)

SpecGate == InitGate /\ [][NextGate]_vars

\* ------------------------------------------- status update with force-kill
NextUpdate ==
    \/ \E s \in ManagerStatus, fk \in ForceKillInputs : UpdateCall(s, fk)
    \/ KillStart
    \/ \E s \in sessions : KillOne(s)
    \/ KillReturn
    \/ KillFail
    \/ UpdateWrite
    \/ CreateSession

SpecUpdate == Init /\ [][NextUpdate]_vars

\* ------------------------------------------------------ announcement alone
NextAnn ==
    \/ \E enabled \in BOOLEAN, message \in Messages \cup {NoValue} :
          AnnUpdateCall(enabled, message)
    \/ AnnStoreOp
    \/ AnnGetCall
    \/ AnnGetReturn

SpecAnn == Init /\ [][NextAnn]_vars

\* ------------------------------------------------- scheduler operations
\* cap on the events produced in one behaviour
MaxEvents == 2

\* any agents table: some of the agents exist, each schedulable or not
InitSchedOps ==
    /\ storeStatus = "RUNNING"
    /\ InitStatus
    /\ InitLife(TRUE)
    /\ InitAnn
    /\ InitHealth
    /\ InitGql
    /\ \E rs \in SUBSET AgentNames : \E flags \in [rs -> BOOLEAN] :
           InitSched(rs, flags)

NextSched ==
    \/ \E op \in SchedulerOps, args \in ListsUpTo(AgentNames, MaxArgs) :
          nEvents < MaxEvents /\ SchedCall(op, args, TRUE)
    \/ \E op \in SchedulerOps : nEvents < MaxEvents /\ SchedCall(op, <<>>, FALSE)
    \/ SchedExecute
    \/ SchedRaise
    \/ SchedCommit
    \/ SchedProduce

SpecSched == InitSchedOps /\ [][NextSched]_vars

\* ------------------------------------------------------------ health check
\* the most agents the ALIVE query of with_all_agents selects; longer
\* fan-outs are requested by agent_ids
MaxAlive == 2

\* the ways a probe can end
ProbeEnds == {"payload", "empty", "TimeoutError", "ClientConnectorError"}

NextHealth ==
    \/ \E ids \in IdLists, all \in BOOLEAN : HealthCall(ids, all)
    \/ \E n \in 0..MaxAlive : HealthQueryAlive(n)
    \/ HealthManagerInfo
    \/ HealthSpawn
    \/ \E i \in DOMAIN job : JobLookupNone(i)
    \/ \E i \in DOMAIN job : JobLookupFound(i)
    \/ \E i \in DOMAIN job, how \in ProbeEnds : JobProbeEnd(i, how)
    \/ HealthGatherReturn
    \/ \E i \in DOMAIN job : HealthGatherRaise(i)
    \/ HealthCancel
    \/ HealthClose
    \/ HealthExit

SpecHealth == Init /\ [][NextHealth]_vars

\* --------------------------------------------------- GraphQL mutation gate
NextGql ==
    \/ \E operation \in GqlOperations, manager_status \in ManagerStatus,
          args \in GqlArgs :
          qcalls < MaxResolves /\ GqlResolve(operation, manager_status, args)
    \/ \E r \in GqlResults : GqlNextReturn(r)

SpecGql == Init /\ [][NextGql]_vars

\* ------------------------------------------------------------------ C1
\* C1: whenever a gated request has been decided, the wrapped handler ran
\* if and only if the status read is in the allowed set; a status outside
\* the set is rejected with ServerFrozen when it is FROZEN and with
\* ServiceUnavailable otherwise.
GateAdmitsIffAllowed ==
    \A p \in Procs :
        gpc[p] = "done" =>
            /\ (goutcome[p] = "handler") <=> (gstatus[p] \in gallowed[p])
            /\ (gstatus[p] \notin gallowed[p] /\ gstatus[p] = "FROZEN")
                   => goutcome[p] = "ServerFrozen"
            /\ (gstatus[p] \notin gallowed[p] /\ gstatus[p] # "FROZEN")
                   => goutcome[p] = "ServiceUnavailable"

\* one process rejected a request because of FROZEN, the other admitted one
\* under a set that allows FROZEN
GateWitness ==
    /\ gpc["p1"] = "done" /\ goutcome["p1"] = "ServerFrozen"
    /\ gpc["p2"] = "done" /\ goutcome["p2"] = "handler"
    /\ gstatus["p2"] = "FROZEN"

\* ------------------------------------------------------------------ C2
\* C2: in a process whose watch loop has finished handling the event of
\* every status write done so far, the cached status is the value in the
\* store.
CacheEqualsWrittenValue ==
    \A p \in Procs :
        (nWrites > 0 /\ handled[p] = nWrites /\ wpc[p] = "wait")
            => cache[p] = storeStatus

\* ------------------------------------------------------------------ C3
\* C3: once an update called with force_kill has written its status, no
\* session that was active when it was called is still active.
KillBeforeWrite ==
    (Truthy(uforce) /\ upc = "done" /\ uoutcome = "204")
        => (activeAtCall \cap sessions = {} /\ storeStatus = ustatus)

\* a force-kill update, called with a session active, has written
KillBeforeWriteWitness ==
    /\ Truthy(uforce) /\ upc = "done" /\ uoutcome = "204"
    /\ activeAtCall # {}
    /\ storeStatus = "FROZEN"

\* ----------------------------------------------------------------- C10
\* C10: an update_announcement call with enabled set and a missing or empty
\* message ends in InvalidAPIParameters, and the stored announcement is
\* what it was when the call was made.
EmptyMessageRejected ==
    (apc = "done" /\ aenabled /\ amessage \in {NoValue, ""})
        => (aoutcome = "InvalidAPIParameters" /\ annStore = annBefore)

\* an enabling update without message was rejected while a message is stored
EmptyMessageWitness ==
    /\ apc = "done" /\ aenabled /\ amessage = NoValue
    /\ aoutcome = "InvalidAPIParameters"
    /\ annStore = "m1"

\* ------------------------------------------------------------------ C6
\* the finished call listed ids of which some exist and at least one does not
SomeExistSomeMissing ==
    /\ spc = "done" /\ sargsValid
    /\ Elems(sargs) \cap rows # {}
    /\ Elems(sargs) \ rows # {}

\* C6 as stated: after such a call the error is InstanceNotFound and every
\* existing agent listed has the flag of the operation, committed.
PartialUpdateCommitted ==
    SomeExistSomeMissing =>
        /\ soutcome = "InstanceNotFound"
        /\ \A a \in Elems(sargs) \cap rows :
               schedulable[a] = (sop = "include-agents")

\* C6 amended: after such a call the error is InstanceNotFound, no
\* transaction is open and every committed flag is what it was when the call
\* was made.
PartialUpdateRolledBack ==
    SomeExistSomeMissing =>
        /\ soutcome = "InstanceNotFound"
        /\ ~inTxn
        /\ schedulable = schedBefore

\* such a call has ended, and the UPDATE had changed a listed agent's flag
PartialUpdateWitness ==
    /\ SomeExistSomeMissing
    /\ soutcome = "InstanceNotFound"
    /\ rowcount = 2 /\ Len(sargs) = 3
    /\ \E a \in Elems(sargs) \cap rows :
           schedBefore[a] # (sop = "include-agents")

\* ------------------------------------------------------------------ C7
\* C7: no trigger is produced while a call is before the end of its
\* transaction; a call answered 204 has set every listed agent to the flag
\* of its operation and has produced exactly one trigger for an include and
\* none for an exclude; a call that ended in an error has produced none.
TriggerOnlyAfterInclude ==
    /\ spc \in {"execute", "raise", "commit", "produce"}
           => nEvents = eventsBefore
    /\ spc = "produce" => (~inTxn /\ sop = "include-agents")
    /\ (spc = "done" /\ soutcome = "204") =>
           /\ \A a \in Elems(sargs) : a \in rows /\ schedulable[a] = (sop = "include-agents")
           /\ nEvents = eventsBefore + (IF sop = "include-agents" THEN 1 ELSE 0)
    /\ (spc = "done" /\ soutcome # "204") => nEvents = eventsBefore

\* an include of two existing agents, one of them unschedulable before, was
\* answered 204 after one trigger
TriggerWitness ==
    /\ spc = "done" /\ soutcome = "204" /\ sop = "include-agents"
    /\ Cardinality(Elems(sargs)) = 2
    /\ \E a \in Elems(sargs) : ~schedBefore[a]
    /\ nEvents = eventsBefore + 1

\* ------------------------------------------------------------------ C4
\* C4 as stated: a health check over several agents in which one probe
\* raised (a timeout or a failed connection) and every other probe returned
\* a payload ends with
\* 200, an empty record for the failing agent and the payload of each other
\* (the call itself is not cancelled).
ProbeFailureIsolated ==
    \A i \in DOMAIN job :
        (/\ hpc = "done"
         /\ herror # "CancelledError"
         /\ Raised(job, i)
         /\ DOMAIN job \ {i} # {}
         /\ \A k \in DOMAIN job \ {i} : job[k] = "payload")
        => /\ houtcome = "200"
           /\ hagentsPresent
           /\ hagents = [k \in DOMAIN job |->
                            IF k = i THEN <<"empty", hids[k]>>
                            ELSE <<"payload", hids[k]>>]

\* ------------------------------------------------------------------ C5
\* C5: at most Limit probe jobs are active at any time, and while the
\* scheduler is open a job is queued only when all Limit slots are taken.
ProbesWithinLimit ==
    /\ ActiveCount(job) <= Limit
    /\ (schedOpen /\ \E i \in DOMAIN job : job[i] = "pending")
           => ActiveCount(job) = Limit

\* more ids than the limit: Limit probes are in flight and one job is queued
ProbesWithinLimitWitness ==
    /\ Len(hids) > Limit
    /\ Cardinality({i \in DOMAIN job : job[i] = "probe"}) = Limit
    /\ \E i \in DOMAIN job : job[i] = "pending"

\* ------------------------------------------------------------------ C8
\* C8 as stated: a health check called with with_all_agents and a non-empty
\* agent_ids list ends in InvalidAPIParameters without having accessed the
\* database, the store, a watcher entry or an agent.
BothParamsRejected ==
    (hpc = "done" /\ hall /\ hreq # <<>>)
        => (houtcome = "InvalidAPIParameters" /\ touched = {})

\* ------------------------------------------------------------------ C9
\* the finished call asked for all agents and found none ALIVE
AllAgentsNoneAlive == hpc = "done" /\ hall /\ hno_alive

\* C9 as stated: such a call answers 200 with the managers entry and an
\* agents field that is an empty list, and issues no probe.
NoneAliveEmptyAgentsList ==
    AllAgentsNoneAlive =>
        /\ houtcome = "200" /\ hmanagers
        /\ hagentsPresent /\ hagents = <<>>
        /\ touched \cap {"watcher", "probe"} = {}

\* C9 amended: such a call answers 200 with the managers entry and without
\* an agents field, and issues no probe.
NoneAliveManagersOnly ==
    AllAgentsNoneAlive =>
        /\ houtcome = "200" /\ hmanagers
        /\ ~hagentsPresent
        /\ job = <<>>
        /\ touched \cap {"watcher", "probe"} = {}

\* such a call has been answered after its query of the ALIVE agents
NoneAliveWitness ==
    /\ AllAgentsNoneAlive
    /\ houtcome = "200"
    /\ "db" \in touched

\* ----------------------------------------------------------------- C11
\* C11: a resolve call for a mutation under FROZEN has raised ServerFrozen
\* and the next resolver was not called; any other resolve call has called
\* the next resolver exactly once and, once ended, has returned its result.
MutationGate ==
    /\ (qpc \in {"next", "done"} /\ GqlRejects(qop, qstatus))
           => (qpc = "done" /\ qret = "ServerFrozen" /\ qcalls = qcallsBefore)
    /\ (qpc \in {"next", "done"} /\ ~GqlRejects(qop, qstatus))
           => (qcalls = qcallsBefore + 1 /\ qpassed = qargs)
    /\ (qpc = "done" /\ ~GqlRejects(qop, qstatus))
           => (qret = qnext /\ qret \in GqlResults)

\* a mutation under FROZEN was rejected after one earlier resolve call had
\* gone through to the next resolver
MutationGateWitness ==
    /\ qpc = "done" /\ qop = "mutation" /\ qstatus = "FROZEN"
    /\ qret = "ServerFrozen" /\ qcalls = 1 /\ qcallsBefore = 1

\* ----------------------------------------------------------------- C12
\* C12 as stated: a status update whose body has no force_kill key is
\* answered 204 with the status written to the store and no session killed.
OmittedForceKillSucceeds ==
    (upc = "done" /\ uforce = "absent")
        => /\ uoutcome = "204"
           /\ storeStatus = ustatus
           /\ activeAtCall \subseteq sessions

\* ----------------------------------------------------------------- C13
\* C13 as stated: a watch task that has ended without an error was ended by
\* a cancellation.
SilentEndOnlyOnCancel ==
    \A p \in Procs :
        (wpc[p] = "done" /\ wresult[p] = "None")
            => wcause[p] \in {"cancel@wait", "cancel@refetch"}

\* ----------------------------------------------------------------- C14
\* C14: once shutdown has ended in a process, its watch task has ended and
\* its subscription is closed; when the task was cancelled while waiting for
\* an event or in the refetch, shutdown has returned without an error and
\* the task has ended without one.
ShutdownAwaitsWatchTask ==
    \A p \in Procs :
        shpc[p] \in {"returned", "raised"} =>
            /\ wpc[p] = "done"
            /\ ~subOpen[p]
            /\ wcause[p] \in {"cancel@wait", "cancel@refetch"}
                   => (shpc[p] = "returned" /\ wresult[p] = "None")

\* shutdown has returned in one process whose task was cancelled in the
\* refetch and in the other whose task was cancelled waiting for an event
ShutdownWitness ==
    /\ shpc["p1"] = "returned" /\ wcause["p1"] = "cancel@refetch"
    /\ shpc["p2"] = "returned" /\ wcause["p2"] = "cancel@wait"

\* ----------------------------------------------------------------- C15
\* C15 as stated: a scheduler operation whose args all name existing agents
\* succeeds, also when args repeats an id.
AllExistSucceeds ==
    (spc = "done" /\ sargsValid /\ Elems(sargs) \subseteq rows)
        => soutcome = "204"

\* ----------------------------------------------------------------- C16
\* C16 as stated: a health check over agent ids whose probes have all ended,
\* by returning or by raising, answers with an agents list that holds one
\* record per requested id, in the order of the ids (the call itself is not
\* cancelled).
OneRecordPerAgentInOrder ==
    (/\ hpc = "done"
     /\ herror # "CancelledError"
     /\ job # <<>>
     /\ \A i \in DOMAIN job : Returned(job, i) \/ Raised(job, i))
        => /\ houtcome = "200"
           /\ hagentsPresent
           /\ Len(hagents) = Len(hids)
           /\ \A i \in DOMAIN hids : hagents[i][2] = hids[i]

\* ----------------------------------------------------------------- C17
\* C17: whenever no health check is running, the job scheduler is closed,
\* the client session is released and no probe is running or queued:
\* whether the fan-out returned, a probe raised or the call was cancelled.
FanOutReleased ==
    hpc \in {"idle", "done"} =>
        /\ ~schedOpen
        /\ ~sessOpen
        /\ \A i \in DOMAIN job : job[i] \notin {"pending", "lookup", "probe"}

\* a cancelled health check over five agents has ended: the probes that were
\* running and the queued one are cancelled
FanOutCancelledWitness ==
    /\ hpc = "done"
    /\ houtcome = "CancelledError"
    /\ Len(job) = 5
    /\ \A i \in DOMAIN job : job[i] = "cancelled"

\* ----------------------------------------------------------------- C18
\* C18: a job whose watcher lookup found nothing has ended with the empty
\* result and its record in the answer is the empty result of its agent id;
\* the step in which the lookup finds nothing ends the job without the
\* request to a watcher (the job never is in flight, and no request is added
\* to what the call has touched) and changes no other job, except that a
\* queued job takes the slot that has become free.
LookupNothingIsEmpty ==
    /\ [](\A i \in nowatcher :
              /\ job[i] = "empty"
              /\ (hpc = "done" /\ houtcome = "200" /\ hagentsPresent)
                     => hagents[i] = <<"empty", hids[i]>>)
    /\ [][\A i \in nowatcher' \ nowatcher :
              /\ job[i] = "lookup" /\ job'[i] = "empty"
              /\ "probe" \in touched' => "probe" \in touched
              /\ \A k \in DOMAIN job \ {i} :
                     \/ job'[k] = job[k]
                     \/ job[k] = "pending" /\ job'[k] = "lookup"]_vars

\* a health check over several agents has answered: one lookup found
\* nothing, another agent's watcher was probed and returned its payload
LookupNothingWitness ==
    /\ hpc = "done"
    /\ houtcome = "200"
    /\ hagentsPresent
    /\ nowatcher # {}
    /\ \E k \in DOMAIN job : job[k] = "payload"

\* ----------------------------------------------------------------- C19
\* C19: the stored announcement is never the empty message; after a
\* successful update it is the message of the update if that was enabling
\* and absent if that was disabling, whatever message the request carried;
\* a rejected update leaves it as it was. get_announcement answers from the
\* value it reads: enabled with that message when a value is stored,
\* disabled with the empty message when none is.
AnnouncementFollowsUpdates ==
    /\ [](/\ annStore # ""
          /\ (apc = "done" /\ aoutcome = "204")
                 => annStore = IF aenabled THEN amessage ELSE NoValue
          /\ (apc = "done" /\ aoutcome = "InvalidAPIParameters")
                 => annStore = annBefore
          /\ getpc = "done" => (getret.enabled <=> getret.message # ""))
    /\ [][(getpc = "read" /\ getpc' = "done") =>
              /\ getret'.enabled <=> annStore # NoValue
              /\ getret'.message = IF annStore # NoValue THEN annStore ELSE ""]_vars

\* m2 was stored, a disabling update that carries the message m1 has
\* succeeded and get_announcement has answered disabled, empty message
AnnouncementWitness ==
    /\ apc = "done" /\ ~aenabled /\ amessage = "m1" /\ aoutcome = "204"
    /\ annBefore = "m2"
    /\ annStore = NoValue
    /\ getpc = "done" /\ getret = [enabled |-> FALSE, message |-> ""]

\* ----------------------------------------------------------------- C20
\* C20: while update_manager_status is in its force-kill step nothing is
\* written to the store and no watch event is produced, and the step in
\* which the kill fails ends the call in an error, the status of the store
\* being the one it had before the call.
KillFailureWritesNothing ==
    [][/\ upc \in {"kill", "killing"}
           => UNCHANGED <<storeStatus, watchQ, nWrites>>
       /\ (upc \in {"kill", "killing"} /\ upc' = "done")
           => uoutcome' = "KillFailed"]_vars

\* a force-kill update to another status, called with sessions active, has
\* failed after one session was destroyed: nothing was written
KillFailureWitness ==
    /\ upc = "done" /\ uoutcome = "KillFailed" /\ Truthy(uforce)
    /\ ustatus = "FROZEN" /\ storeStatus = "RUNNING" /\ nWrites = 0
    /\ activeAtCall \cap sessions # {}
    /\ activeAtCall \ sessions # {}
    /\ \A p \in Procs : watchQ[p] = <<>>

====
